---- MODULE Spec2Model ----
(***************************************************************************)
(* Document quality assessment for OCR: the criteria evaluation engine     *)
(* (criteria.py, run_all_checks_for_document), the evaluation worker and   *)
(* the parallel pipeline (document_assessor/evaluator.py).                  *)
(*                                                                         *)
(* A raster page is represented by the values the metric functions of      *)
(* criteria.py compute on it.  Numbers are integers; an aggregated value   *)
(* is carried multiplied by Scale so that the mean over the pages of a     *)
(* document is exact.                                                      *)
(***************************************************************************)
EXTENDS Integers, Sequences, FiniteSets, TLC

VARIABLES
    CRITERIA,        \* criteria.py module global, loaded from the config file
    criteria_list,   \* the criteria list handed to run_pipeline / the worker
    timeout_per_doc, \* run_pipeline(timeout_per_doc) / worker timeout_seconds
    doc,             \* the document of the worker process under observation
    proc,            \* that worker process: position and locals of
                     \* evaluate_document_worker and run_all_checks_for_document
    data,            \* run_pipeline input: the validated batches
    pc,              \* position of run_pipeline
    all_docs,        \* run_pipeline: documentID -> Document object
    futures,         \* run_pipeline: documentID -> state of the submitted task
    metrics,         \* run_pipeline: the metrics dict
    exported,        \* sequence of metrics dicts handed to export_metrics
    metrics_file,    \* what export_metrics wrote: <<>> or the one metrics dict
    final_output     \* value returned by run_pipeline

vars == <<CRITERIA, criteria_list, timeout_per_doc, doc, proc, data, pc, all_docs,
          futures, metrics, exported, metrics_file, final_output>>

pipeline_vars == <<data, pc, all_docs, futures, metrics, exported, metrics_file,
                   final_output>>

worker_vars == <<doc, proc>>

-----------------------------------------------------------------------------
(* Bounds *)

MaxCriteria == 3    \* length of the criteria list
MaxDocs == 2        \* documents per pipeline run
MaxEngineCriteria == 2   \* length of the criteria list of an engine run
MaxRaise == 10      \* largest amount a threshold is raised by

-----------------------------------------------------------------------------
(* Sequence helpers *)

RECURSIVE SeqSum(_)
SeqSum(s) == IF s = <<>> THEN 0 ELSE Head(s) + SeqSum(Tail(s))

RECURSIVE SeqMin(_)
SeqMin(s) == IF Len(s) = 1 THEN s[1]
             ELSE LET m == SeqMin(Tail(s)) IN IF s[1] < m THEN s[1] ELSE m

RECURSIVE SeqMax(_)
SeqMax(s) == IF Len(s) = 1 THEN s[1]
             ELSE LET m == SeqMax(Tail(s)) IN IF s[1] > m THEN s[1] ELSE m

RECURSIVE Gcd(_, _)
Gcd(a, b) == IF b = 0 THEN a ELSE Gcd(b, a % b)

RECURSIVE LcmUpTo(_)
LcmUpTo(n) == IF n <= 1 THEN 1
              ELSE LET l == LcmUpTo(n - 1) IN (l * n) \div Gcd(l, n)


Abs(x) == IF x < 0 THEN 0 - x ELSE x

-----------------------------------------------------------------------------
(* models.py *)

None == 0 - 1       \* an Optional[float] field that is not set

CriteriaType == {"required", "recommended", "warning"}

\* Threshold(): every field None.  "present" is FALSE when the criterion has
\* no threshold object at all (CriteriaConfig.threshold is None).
Threshold ==
    [present |-> TRUE, min_dpi |-> None, min |-> None, max |-> None,
     min_variance |-> None, max_deg |-> None, min_percent |-> None,
     max_percent |-> None, max_overlap |-> None, min_entropy |-> None,
     min_content_ratio |-> None]

NoThreshold == [Threshold EXCEPT !.present = FALSE]

CriteriaConfig(name, type, threshold, aggregate_mode) ==
    [name |-> name, type |-> type, threshold |-> threshold,
     aggregate_mode |-> aggregate_mode]

\* A reason string: the fixed text of the f-string, the text of the exception
\* it embeds (if any) and the numbers it formats.
Reason(text, detail, vals) == [text |-> text, detail |-> detail, vals |-> vals]

-----------------------------------------------------------------------------
(* Raster pages and the files of the run *)

\* What the metric functions compute on a well-scanned page.
GoodPage ==
    [content_ratio |-> 10,  \* calculate_content_ratio
     dpi |-> 300,           \* img.info["dpi"][0], 0 when absent
     vector_dpi |-> 300,    \* size[0] * 72 / page.rect.width
     est_dpi |-> 300,       \* estimate_dpi_from_image
     brightness |-> 128,    \* calculate_brightness_with_trim
     variance |-> 500,      \* Laplacian variance
     skew |-> 0,            \* calculate_skew
     watermark |-> 0,       \* detect_watermark_fft
     noise |-> 1,           \* noise percentage
     entropy |-> 5,         \* histogram entropy
     raises |-> {},         \* metric families whose computation raises here
     large |-> FALSE,       \* img.width > 1000 or img.height > 1000
     thumb |->              \* what the pixel metrics compute once the page
                            \* has been reduced by img.thumbnail((1000, 1000))
         [vector_dpi |-> 300, est_dpi |-> 300, brightness |-> 128,
          variance |-> 500, watermark |-> 0, noise |-> 1, entropy |-> 5]]

BlankPage ==
    [GoodPage EXCEPT !.content_ratio = 0, !.brightness = 255, !.variance = 0,
                     !.entropy = 0, !.dpi = 0, !.vector_dpi = 200,
                     !.est_dpi = 0]

BlurryDarkPage == [GoodPage EXCEPT !.variance = 10, !.brightness = 20]

SparsePage == [GoodPage EXCEPT !.content_ratio = 1, !.brightness = 50]

CorruptPage == [GoodPage EXCEPT !.brightness = 20, !.raises = {"blur", "skew"}]

\* Pages scanned at a low resolution, one sparse and one dense.
SparseLowResPage ==
    [GoodPage EXCEPT !.content_ratio = 1, !.dpi = 100, !.vector_dpi = 100,
                     !.est_dpi = 100]

DenseLowResPage ==
    [GoodPage EXCEPT !.dpi = 100, !.vector_dpi = 100, !.est_dpi = 100]

\* A sharp scan of more than 1000 pixels a side, without DPI metadata: the
\* reduced page has smaller characters and less detail.
LargePage ==
    [GoodPage EXCEPT !.dpi = 0, !.large = TRUE,
                     !.thumb = [vector_dpi |-> 120, est_dpi |-> 120,
                                brightness |-> 128, variance |-> 40,
                                watermark |-> 0, noise |-> 1, entropy |-> 5]]

\* Pages whose brightness and content ratio sit on the bounds of the
\* configured ranges.
EdgeLowPage == [GoodPage EXCEPT !.brightness = 50, !.content_ratio = 5]

EdgeHighPage == [GoodPage EXCEPT !.brightness = 220, !.content_ratio = 80]

\* What the raster provider does for each path of the run: it raises, or it
\* returns the listed pages (possibly none).
FILES ==
    [p \in {"good.pdf", "blurry.pdf", "blank.tiff", "mixed.pdf", "lowres.pdf",
            "corrupt.png", "empty.tiff", "broken.pdf", "large.png",
            "edge_low.png", "edge_high.png", "partlow.pdf", "cover.tiff"} |->
        CASE p = "good.pdf"    -> [ext |-> "pdf",  fails |-> FALSE, pages |-> <<GoodPage>>]
          [] p = "blurry.pdf"  -> [ext |-> "pdf",  fails |-> FALSE, pages |-> <<BlurryDarkPage>>]
          [] p = "blank.tiff"  -> [ext |-> "tiff", fails |-> FALSE, pages |-> <<BlankPage>>]
          [] p = "mixed.pdf"   -> [ext |-> "pdf",  fails |-> FALSE, pages |-> <<SparsePage, BlurryDarkPage>>]
          [] p = "lowres.pdf"  -> [ext |-> "pdf",  fails |-> FALSE, pages |-> <<SparseLowResPage, DenseLowResPage>>]
          [] p = "corrupt.png" -> [ext |-> "png",  fails |-> FALSE, pages |-> <<CorruptPage>>]
          [] p = "large.png"   -> [ext |-> "png",  fails |-> FALSE, pages |-> <<LargePage>>]
          [] p = "edge_low.png"  -> [ext |-> "png", fails |-> FALSE, pages |-> <<EdgeLowPage>>]
          [] p = "edge_high.png" -> [ext |-> "png", fails |-> FALSE, pages |-> <<EdgeHighPage>>]
          [] p = "partlow.pdf" -> [ext |-> "pdf",  fails |-> FALSE, pages |-> <<GoodPage, DenseLowResPage>>]
          [] p = "cover.tiff"  -> [ext |-> "tiff", fails |-> FALSE, pages |-> <<BlankPage, GoodPage>>]
          [] p = "empty.tiff"  -> [ext |-> "tiff", fails |-> FALSE, pages |-> <<>>]
          [] p = "broken.pdf"  -> [ext |-> "pdf",  fails |-> TRUE,  pages |-> <<>>]]

Paths == DOMAIN FILES

NoFormat == "None"   \* Document.documentFormat not given

\* _get_images_from_path: the pages, or the ValueError it raises.
_get_images_from_path(doc_path, doc_format, dpi) ==
    IF FILES[doc_path].fails
    THEN [raised |-> TRUE, images |-> <<>>]
    ELSE [raised |-> FALSE, images |-> FILES[doc_path].pages]

-----------------------------------------------------------------------------
(* criteria.py: metrics *)

RECURSIVE SetMax(_)
SetMax(S) == LET x == CHOOSE y \in S : TRUE
             IN IF S = {x} THEN x
                ELSE LET m == SetMax(S \ {x}) IN IF x > m THEN x ELSE m

\* Aggregated values are carried in units of 1/Scale: the mean of the values
\* of any file's pages is then an integer.
Scale == LcmUpTo(SetMax({Len(FILES[p].pages) : p \in Paths}))

\* _aggregate(values, mode), in units of 1/Scale.
_aggregate(values, mode) ==
    IF values = <<>> THEN 0
    ELSE IF mode = "min" THEN Scale * SeqMin(values)
    ELSE IF mode = "max" THEN Scale * SeqMax(values)
    ELSE IF mode = "avg" THEN (Scale * SeqSum(values)) \div Len(values)
    ELSE Scale * SeqMin(values)

\* calculate_skew, lines 70-72: img.thumbnail reduces a large page in place.
thumbnail(img) ==
    IF ~img.large THEN img
    ELSE [img EXCEPT !.large = FALSE,
                     !.vector_dpi = img.thumb.vector_dpi,
                     !.est_dpi = img.thumb.est_dpi,
                     !.brightness = img.thumb.brightness,
                     !.variance = img.thumb.variance,
                     !.watermark = img.thumb.watermark,
                     !.noise = img.thumb.noise,
                     !.entropy = img.thumb.entropy]

\* The pages as the branch of the named criterion leaves them: the skew
\* branch calls calculate_skew on every page.
pages_after(images, name) ==
    IF name = "skew" THEN [i \in 1..Len(images) |-> thumbnail(images[i])]
    ELSE images

Field(images, f) == [i \in 1..Len(images) |-> images[i][f]]

MetricRaises(images, name) == \E i \in 1..Len(images) : name \in images[i].raises

\* Outcome of one criterion's branch of the loop body.
Passed == [kind |-> "pass", reason |-> Reason("", "", <<>>)]
Skipped == [kind |-> "skip", reason |-> Reason("", "", <<>>)]
Failed(text, vals) == [kind |-> "fail", reason |-> Reason(text, "", vals)]
Raised(detail) == [kind |-> "raise", reason |-> Reason("", detail, <<>>)]

\* LessThan with the comparison the wrong way round.
LessThan_inverted(a, b, text, vals) ==
    IF b = None THEN Raised("TypeError")
    ELSE IF a > Scale * b THEN Failed(text, vals) ELSE Passed

\* "a < b" where b may be None: TypeError.
LessThan(a, b, text, vals) ==
    IF b = None THEN Raised("TypeError")
    ELSE IF a < Scale * b THEN Failed(text, vals) ELSE Passed

\* GreaterThan taking an unset bound for "no limit".
GreaterThan_unset_passes(a, b, text, vals) ==
    IF b = None THEN Passed
    ELSE IF a > Scale * b THEN Failed(text, vals) ELSE Passed

\* "a > b" where b may be None.
GreaterThan(a, b, text, vals) ==
    IF b = None THEN Raised("TypeError")
    ELSE IF a > Scale * b THEN Failed(text, vals) ELSE Passed

\* OutOfRange with exclusive bounds.
OutOfRange_strict(a, lo, hi, text, vals) ==
    IF lo = None THEN Raised("TypeError")
    ELSE IF ~(Scale * lo < a) THEN Failed(text, vals)
    ELSE IF hi = None THEN Raised("TypeError")
    ELSE IF ~(a < Scale * hi) THEN Failed(text, vals)
    ELSE Passed

\* "not (lo <= a <= hi)": the chained comparison evaluates lo <= a first and
\* a <= hi only when that holds.
OutOfRange(a, lo, hi, text, vals) ==
    IF lo = None THEN Raised("TypeError")
    ELSE IF ~(Scale * lo <= a) THEN Failed(text, vals)
    ELSE IF hi = None THEN Raised("TypeError")
    ELSE IF ~(a <= Scale * hi) THEN Failed(text, vals)
    ELSE Passed

TextDensityConfigs(clist) == {i \in 1..Len(clist) : clist[i].name = "text_density"}

\* The "resolution" branch.
check_resolution(images, doc_format, clist, thresh) ==
    LET tds == TextDensityConfigs(clist)
        td == clist[CHOOSE i \in tds : \A j \in tds : i <= j]
        min_content_threshold ==
            IF tds # {} /\ td.threshold.present THEN td.threshold.min_percent
            ELSE 1
        content_ratios == Field(images, "content_ratio")
        meta == Field(images, "dpi")
        dpis == IF (\E i \in 1..Len(meta) : meta[i] = 0) /\ doc_format = "pdf"
                THEN Field(images, "vector_dpi") ELSE meta
        agg_dpi == _aggregate(dpis, "min")
        estimated_dpi == images[1].est_dpi
    IN  IF min_content_threshold = None THEN Raised("TypeError")
        ELSE IF _aggregate(content_ratios, "avg") < Scale * min_content_threshold
             THEN Skipped
        ELSE IF thresh.min_dpi = None THEN Raised("TypeError")
        ELSE IF agg_dpi < Scale * thresh.min_dpi
                /\ estimated_dpi < thresh.min_dpi
             THEN Failed("Resolution too low (metadata_dpi: {}, estimated_dpi: {})",
                         <<agg_dpi, estimated_dpi>>)
        ELSE Passed

\* pass_check rejecting a name it has no branch for.
pass_check_unknown_raises(images, doc_format, clist, criteria) ==
    LET name == criteria.name
        thresh == IF criteria.threshold.present THEN criteria.threshold
                  ELSE Threshold
        content_ratios == Field(images, "content_ratio")
    IN  IF name = "file_integrity" THEN Passed
        ELSE IF name = "resolution"
             THEN check_resolution(images, doc_format, clist, thresh)
        ELSE IF name \in {"brightness", "blur", "skew", "watermark", "noise",
                          "compression"}
                /\ MetricRaises(images, name)
             THEN Raised("MetricError")
        ELSE IF name = "brightness"
             THEN OutOfRange(_aggregate(Field(images, "brightness"), "avg"),
                             thresh.min, thresh.max,
                             "Brightness out of range", <<>>)
        ELSE IF name = "blur"
             THEN LET v == _aggregate(Field(images, "variance"), "min")
                  IN LessThan(v, thresh.min_variance,
                              "Image too blurry (variance: {})", <<v>>)
        ELSE IF name = "skew"
             THEN LET skews == Field(images, "skew")
                      a == _aggregate([i \in 1..Len(skews) |-> Abs(skews[i])], "max")
                  IN GreaterThan(a, thresh.max_deg, "Skew angle too large", <<>>)
        ELSE IF name = "watermark"
             THEN LET s == _aggregate(Field(images, "watermark"), "max")
                  IN GreaterThan(s, thresh.max_overlap,
                                 "Watermark interference too high (FFT score: {})", <<s>>)
        ELSE IF name = "text_density"
             THEN LET r == _aggregate(content_ratios, criteria.aggregate_mode)
                  IN OutOfRange(r, thresh.min_percent, thresh.max_percent,
                                "Text density out of range ({}%)", <<r>>)
        ELSE IF name = "noise"
             THEN LET n == _aggregate(Field(images, "noise"), "max")
                  IN GreaterThan(n, thresh.max_percent,
                                 "Noise level too high (max: {}%)", <<n>>)
        ELSE IF name = "compression"
             THEN LET e == _aggregate(Field(images, "entropy"), "min")
                  IN LessThan(e, thresh.min_entropy,
                              "Compression artifact detected (min_entropy: {})", <<e>>)
        ELSE IF name = "missing_pages"
             THEN LET c == _aggregate(content_ratios, "min")
                  IN LessThan(c, thresh.min_content_ratio,
                              "Page may be missing or blank (content ratio: {}%)", <<c>>)
        ELSE Raised("ValueError")

\* Lines 197-306: the branch selected by the criterion's name.
pass_check(images, doc_format, clist, criteria) ==
    LET name == criteria.name
        thresh == IF criteria.threshold.present THEN criteria.threshold
                  ELSE Threshold
        content_ratios == Field(images, "content_ratio")
    IN  IF name = "file_integrity" THEN Passed
        ELSE IF name = "resolution"
             THEN check_resolution(images, doc_format, clist, thresh)
        ELSE IF name \in {"brightness", "blur", "skew", "watermark", "noise",
                          "compression"}
                /\ MetricRaises(images, name)
             THEN Raised("MetricError")
        ELSE IF name = "brightness"
             THEN OutOfRange(_aggregate(Field(images, "brightness"), "avg"),
                             thresh.min, thresh.max,
                             "Brightness out of range", <<>>)
        ELSE IF name = "blur"
             THEN LET v == _aggregate(Field(images, "variance"), "min")
                  IN LessThan(v, thresh.min_variance,
                              "Image too blurry (variance: {})", <<v>>)
        ELSE IF name = "skew"
             THEN LET skews == Field(images, "skew")
                      a == _aggregate([i \in 1..Len(skews) |-> Abs(skews[i])], "max")
                  IN GreaterThan(a, thresh.max_deg, "Skew angle too large", <<>>)
        ELSE IF name = "watermark"
             THEN LET s == _aggregate(Field(images, "watermark"), "max")
                  IN GreaterThan(s, thresh.max_overlap,
                                 "Watermark interference too high (FFT score: {})", <<s>>)
        ELSE IF name = "text_density"
             THEN LET r == _aggregate(content_ratios, criteria.aggregate_mode)
                  IN OutOfRange(r, thresh.min_percent, thresh.max_percent,
                                "Text density out of range ({}%)", <<r>>)
        ELSE IF name = "noise"
             THEN LET n == _aggregate(Field(images, "noise"), "max")
                  IN GreaterThan(n, thresh.max_percent,
                                 "Noise level too high (max: {}%)", <<n>>)
        ELSE IF name = "compression"
             THEN LET e == _aggregate(Field(images, "entropy"), "min")
                  IN LessThan(e, thresh.min_entropy,
                              "Compression artifact detected (min_entropy: {})", <<e>>)
        ELSE IF name = "missing_pages"
             THEN LET c == _aggregate(content_ratios, "min")
                  IN LessThan(c, thresh.min_content_ratio,
                              "Page may be missing or blank (content ratio: {}%)", <<c>>)
        ELSE Passed

-----------------------------------------------------------------------------
(* The worker process: evaluate_document_worker calling                   *)
(* run_all_checks_for_document.  A process is a record of its position and *)
(* locals; each operator below is one step of it.                          *)

Result(accepted, reasons, warnings) ==
    [accepted |-> accepted, reasons |-> reasons, warnings |-> warnings]

NoResult == Result(FALSE, <<>>, <<>>)

\* The process at the call of evaluate_document_worker.  computed, extracted
\* and timed_out record what the process has done: the list positions whose
\* branch ran, whether the raster provider was invoked, whether the timeout
\* warning (line 31) and the worker's error (line 39) were logged.  outcomes
\* holds what each computed branch found, requested_dpi the dpi the raster
\* provider was called with (None before the call).
worker_call ==
    [pc |-> "worker", i |-> 1, is_accepted |-> TRUE, reasons |-> <<>>,
     warnings |-> <<>>, images |-> <<>>, doc_format |-> NoFormat,
     returned |-> NoResult, result |-> NoResult,
     computed |-> <<>>, extracted |-> FALSE, timed_out |-> FALSE,
     error_logged |-> FALSE, outcomes |-> <<>>, requested_dpi |-> None]

\* worker_enter without the requiresOCR shortcut.
worker_enter_always_engine(p, d) == [p EXCEPT !.pc = "extract"]

\* evaluator.py 19-23: the requiresOCR shortcut, else enter the engine.
worker_enter(p, d) ==
    IF ~d.requiresOCR
    THEN [p EXCEPT !.pc = "returned", !.result = Result(TRUE, <<>>, <<>>)]
    ELSE [p EXCEPT !.pc = "extract"]

\* engine_except keeping what the loop had accumulated.
engine_except_keeps(p, detail) ==
    [p EXCEPT !.pc = "finish",
              !.returned = Result(FALSE,
                  Append(p.reasons, Reason("Critical error during evaluation: {}", detail, <<>>)),
                  p.warnings)]

\* criteria.py 326-328: the engine's handler.
engine_except(p, detail) ==
    [p EXCEPT !.pc = "finish",
              !.returned = Result(FALSE,
                  <<Reason("Critical error during evaluation: {}", detail, <<>>)>>,
                  <<>>)]

ResolutionConfigs(clist) == {i \in 1..Len(clist) : clist[i].name = "resolution"}

\* engine_extract without the "if not images" return.
engine_extract_no_empty_check(p, d, config) ==
    LET doc_format == IF d.documentFormat = NoFormat
                      THEN FILES[d.documentPath].ext ELSE d.documentFormat
        rs == ResolutionConfigs(config)
        rc == config[CHOOSE i \in rs : \A j \in rs : i <= j]
        has_res == rs # {} /\ rc.threshold.present
        min_dpi_to_extract == IF has_res THEN rc.threshold.min_dpi ELSE 200
        r == _get_images_from_path(d.documentPath, doc_format, min_dpi_to_extract)
    IN  IF min_dpi_to_extract = None THEN engine_except(p, "TypeError")
        ELSE IF r.raised
             THEN engine_except([p EXCEPT !.extracted = TRUE, !.doc_format = doc_format,
                                          !.requested_dpi = min_dpi_to_extract],
                                "Failed to extract images")
        ELSE [p EXCEPT !.pc = "loop", !.i = 1, !.extracted = TRUE,
                       !.doc_format = doc_format, !.images = r.images,
                       !.requested_dpi = min_dpi_to_extract]

\* criteria.py 175-194: format, requested dpi, extraction.
engine_extract(p, d, config) ==
    LET doc_format == IF d.documentFormat = NoFormat
                      THEN FILES[d.documentPath].ext ELSE d.documentFormat
        rs == ResolutionConfigs(config)
        rc == config[CHOOSE i \in rs : \A j \in rs : i <= j]
        has_res == rs # {} /\ rc.threshold.present
        min_dpi_to_extract == IF has_res THEN rc.threshold.min_dpi ELSE 200
        r == _get_images_from_path(d.documentPath, doc_format, min_dpi_to_extract)
    IN  IF min_dpi_to_extract = None THEN engine_except(p, "TypeError")
        ELSE IF r.raised
             THEN engine_except([p EXCEPT !.extracted = TRUE, !.doc_format = doc_format,
                                          !.requested_dpi = min_dpi_to_extract],
                                "Failed to extract images")
        ELSE IF r.images = <<>>
             THEN [p EXCEPT !.pc = "finish", !.extracted = TRUE,
                            !.doc_format = doc_format,
                            !.requested_dpi = min_dpi_to_extract,
                            !.returned = Result(FALSE,
                                <<Reason("No images could be extracted from the document.",
                                         "", <<>>)>>, <<>>)]
        ELSE [p EXCEPT !.pc = "loop", !.i = 1, !.extracted = TRUE,
                       !.doc_format = doc_format, !.images = r.images,
                       !.requested_dpi = min_dpi_to_extract]

\* handle_result without the break of the required branch.
handle_result_no_break(p, criteria, reason) ==
    IF criteria.type = "required"
    THEN [p EXCEPT !.i = p.i + 1, !.is_accepted = FALSE,
                   !.reasons = Append(p.reasons, reason)]
    ELSE IF criteria.type = "recommended"
    THEN [p EXCEPT !.i = p.i + 1, !.reasons = Append(p.reasons, reason)]
    ELSE [p EXCEPT !.i = p.i + 1, !.warnings = Append(p.warnings, reason)]

\* handle_result where a recommended failure also rejects.
handle_result_recommended_rejects(p, criteria, reason) ==
    IF criteria.type = "required"
    THEN LET rs == Append(p.reasons, reason)
         IN [p EXCEPT !.pc = "finish", !.is_accepted = FALSE, !.reasons = rs,
                      !.returned = Result(FALSE, rs, p.warnings)]
    ELSE IF criteria.type = "recommended"
    THEN [p EXCEPT !.i = p.i + 1, !.is_accepted = FALSE,
                   !.reasons = Append(p.reasons, reason)]
    ELSE [p EXCEPT !.i = p.i + 1, !.warnings = Append(p.warnings, reason)]

\* handle_result where a warning failure lands in reasons.
handle_result_warning_in_reasons(p, criteria, reason) ==
    IF criteria.type = "required"
    THEN LET rs == Append(p.reasons, reason)
         IN [p EXCEPT !.pc = "finish", !.is_accepted = FALSE, !.reasons = rs,
                      !.returned = Result(FALSE, rs, p.warnings)]
    ELSE [p EXCEPT !.i = p.i + 1, !.reasons = Append(p.reasons, reason)]

\* handle_result where a required failure rejects without recording its
\* reason.
handle_result_silent_reject(p, criteria, reason) ==
    IF criteria.type = "required"
    THEN [p EXCEPT !.pc = "finish", !.is_accepted = FALSE,
                   !.returned = Result(FALSE, p.reasons, p.warnings)]
    ELSE IF criteria.type = "recommended"
    THEN [p EXCEPT !.i = p.i + 1, !.reasons = Append(p.reasons, reason)]
    ELSE [p EXCEPT !.i = p.i + 1, !.warnings = Append(p.warnings, reason)]

\* criteria.py 308-319: what a failed check does, by criterion type.
handle_result(p, criteria, reason) ==
    IF criteria.type = "required"
    THEN LET rs == Append(p.reasons, reason)
         IN [p EXCEPT !.pc = "finish", !.is_accepted = FALSE, !.reasons = rs,
                      !.returned = Result(FALSE, rs, p.warnings)]
    ELSE IF criteria.type = "recommended"
    THEN [p EXCEPT !.i = p.i + 1, !.reasons = Append(p.reasons, reason)]
    ELSE IF criteria.type = "warning"
    THEN [p EXCEPT !.i = p.i + 1, !.warnings = Append(p.warnings, reason)]
    ELSE [p EXCEPT !.i = p.i + 1]

\* criteria.py 197-324: one iteration of the loop, or the return after it.
engine_check(p, clist) ==
    IF p.i > Len(clist)
    THEN [p EXCEPT !.pc = "finish",
                   !.returned = Result(p.is_accepted, p.reasons, p.warnings)]
    ELSE LET criteria == clist[p.i]
             out == pass_check(p.images, p.doc_format, clist, criteria)
             q == [p EXCEPT !.computed = Append(p.computed, p.i),
                            !.outcomes = Append(p.outcomes, out),
                            !.images = pages_after(p.images, criteria.name)]
         IN  IF out.kind = "raise" THEN engine_except(q, out.reason.detail)
             ELSE IF out.kind = "fail" THEN handle_result(q, criteria, out.reason)
             ELSE [q EXCEPT !.i = p.i + 1]

\* worker_finish enforcing the timeout, as the superseded worker of
\* src/evaluator.py 26-29 reports it.
worker_finish_enforced(p, timeout_seconds, elapsed) ==
    IF elapsed > timeout_seconds
    THEN [p EXCEPT !.pc = "returned", !.timed_out = TRUE,
                   !.result = Result(FALSE,
                       Append(p.returned.reasons,
                              Reason("Evaluation timeout after {}s", "", <<timeout_seconds>>)),
                       p.returned.warnings)]
    ELSE [p EXCEPT !.pc = "returned", !.result = p.returned]

\* evaluator.py 30-35: the timeout check and the return.
worker_finish(p, timeout_seconds, elapsed) ==
    [p EXCEPT !.pc = "returned", !.result = p.returned,
              !.timed_out = (elapsed > timeout_seconds)]

\* worker_except re-raising instead of returning.
worker_except_reraises(p) == [p EXCEPT !.pc = "raised", !.error_logged = TRUE]

\* evaluator.py 37-43: the worker's handler.
worker_except(p) ==
    [p EXCEPT !.pc = "returned", !.error_logged = TRUE,
              !.result = Result(FALSE,
                  <<Reason("Unexpected error during evaluation: {}", "Exception", <<>>)>>,
                  <<>>)]

worker_step(p, d, config, clist, timeout_seconds, elapsed) ==
    IF p.pc = "worker" THEN worker_enter(p, d)
    ELSE IF p.pc = "extract" THEN engine_extract(p, d, config)
    ELSE IF p.pc = "loop" THEN engine_check(p, clist)
    ELSE IF p.pc = "finish" THEN worker_finish(p, timeout_seconds, elapsed)
    ELSE p

RECURSIVE worker_run(_, _, _, _, _, _)
worker_run(p, d, config, clist, timeout_seconds, elapsed) ==
    IF p.pc = "returned" THEN p
    ELSE worker_run(worker_step(p, d, config, clist, timeout_seconds, elapsed),
                    d, config, clist, timeout_seconds, elapsed)

\* The whole call, as a task of the pool runs it.  escapes: an exception
\* reaches the worker's handler (it left run_all_checks_for_document, or was
\* raised by the statements after the call).
evaluate_document_worker(d, config, clist, timeout_seconds, elapsed, escapes) ==
    LET p0 == worker_enter(worker_call, d)
    IN  IF escapes /\ p0.pc # "returned" THEN worker_except(p0)
        ELSE worker_run(p0, d, config, clist, timeout_seconds, elapsed)

-----------------------------------------------------------------------------
(* Inputs *)

SeqsUpTo(S, n) == UNION {[1..k -> S] : k \in 0..n}

\* Thresholds as a configuration file sets them for each criterion name.
ThresholdFor(name) ==
    CASE name = "resolution"    -> [Threshold EXCEPT !.min_dpi = 200]
      [] name = "brightness"    -> [Threshold EXCEPT !.min = 50, !.max = 220]
      [] name = "blur"          -> [Threshold EXCEPT !.min_variance = 50]
      [] name = "skew"          -> [Threshold EXCEPT !.max_deg = 3]
      [] name = "watermark"     -> [Threshold EXCEPT !.max_overlap = 5]
      [] name = "text_density"  -> [Threshold EXCEPT !.min_percent = 5, !.max_percent = 80]
      [] name = "noise"         -> [Threshold EXCEPT !.max_percent = 5]
      [] name = "compression"   -> [Threshold EXCEPT !.min_entropy = 6]
      [] name = "missing_pages" -> [Threshold EXCEPT !.min_content_ratio = 1]
      [] OTHER                  -> NoThreshold

\* Criteria the decision-policy runs draw their lists from.
PolicyNames == {"brightness", "blur", "missing_pages"}

PolicyPool ==
    {CriteriaConfig(n, t, ThresholdFor(n), "min") : n \in PolicyNames, t \in CriteriaType}

\* The configuration file behind the module global CRITERIA.
ConfigFile == <<CriteriaConfig("resolution", "required", ThresholdFor("resolution"), "min")>>

Timeouts == {60, 300}   \* defaults of run_pipeline and of main.py --timeout

ElapsedTimes == {0} \cup {t + 1 : t \in Timeouts}

Document(id, path, format, ocr) ==
    [documentID |-> id, documentType |-> "None", documentFormat |-> format,
     documentPath |-> path, requiresOCR |-> ocr,
     isAccepted |-> "None", reasons |-> <<>>, warnings |-> <<>>]

\* The metrics dict of run_pipeline, lines 59-65.
NewMetrics ==
    [total_docs |-> 0, accepted_docs |-> 0, rejected_docs |-> 0,
     rejection_summary |-> <<>>, rejected_documents |-> <<>>]

-----------------------------------------------------------------------------
(* One worker process evaluating one document, step by step *)

InitWorker ==
    /\ CRITERIA = ConfigFile
    /\ criteria_list \in SeqsUpTo(PolicyPool, MaxCriteria)
    /\ timeout_per_doc \in Timeouts
    /\ \E path \in Paths, ocr \in BOOLEAN :
           doc = Document("d1", path, FILES[path].ext, ocr)
    /\ proc = worker_call
    /\ data = <<>>
    /\ pc = "idle"
    /\ all_docs = <<>>
    /\ futures = <<>>
    /\ metrics = NewMetrics
    /\ exported = <<>>
    /\ metrics_file = <<>>
    /\ final_output = <<>>

WorkerEnter ==
    /\ proc.pc = "worker"
    /\ proc' = worker_enter(proc, doc)
    /\ UNCHANGED <<CRITERIA, criteria_list, timeout_per_doc, doc, pipeline_vars>>

EngineExtract ==
    /\ proc.pc = "extract"
    /\ proc' = engine_extract(proc, doc, CRITERIA)
    /\ UNCHANGED <<CRITERIA, criteria_list, timeout_per_doc, doc, pipeline_vars>>

EngineCheck ==
    /\ proc.pc = "loop"
    /\ proc' = engine_check(proc, criteria_list)
    /\ UNCHANGED <<CRITERIA, criteria_list, timeout_per_doc, doc, pipeline_vars>>

WorkerFinish ==
    /\ proc.pc = "finish"
    /\ \E elapsed \in ElapsedTimes :
           proc' = worker_finish(proc, timeout_per_doc, elapsed)
    /\ UNCHANGED <<CRITERIA, criteria_list, timeout_per_doc, doc, pipeline_vars>>

\* An exception reaches the worker's handler from anywhere in its try block.
WorkerExcept ==
    /\ proc.pc \in {"extract", "loop", "finish"}
    /\ proc' = worker_except(proc)
    /\ UNCHANGED <<CRITERIA, criteria_list, timeout_per_doc, doc, pipeline_vars>>

NextWorker ==
    \/ WorkerEnter
    \/ EngineExtract
    \/ EngineCheck
    \/ WorkerFinish
    \/ WorkerExcept

SpecWorker == InitWorker /\ [][NextWorker]_vars

-----------------------------------------------------------------------------
(* The engine over the metric families, called by a worker *)

EngineNames ==
    {"file_integrity", "resolution", "brightness", "skew", "watermark",
     "text_density", "noise", "compression", "missing_pages"}

EnginePool ==
    {CriteriaConfig(n, t, ThresholdFor(n), "min") : n \in EngineNames, t \in CriteriaType}
    \cup {CriteriaConfig("text_density", t, ThresholdFor("text_density"), m) :
             t \in CriteriaType, m \in {"max", "avg"}}

EnginePaths ==
    {"good.pdf", "mixed.pdf", "lowres.pdf", "blank.tiff", "corrupt.png",
     "large.png", "edge_low.png", "edge_high.png", "partlow.pdf", "cover.tiff"}

\* The names the loop of run_all_checks_for_document has a branch for, and
\* those of them that compare a metric with a threshold field.
HandledNames == EngineNames \cup {"blur"}

MetricNames == HandledNames \ {"file_integrity"}

\* Names no branch handles.
UnknownNames == {"orientation", "Blur"}

\* Thresholds of a criterion that leave a field its branch compares unset:
\* no threshold object, an empty one, or one bound of a range only.
UnsetThresholdsFor(name) ==
    {NoThreshold, Threshold}
    \cup (IF name = "brightness"
          THEN {[Threshold EXCEPT !.min = 50], [Threshold EXCEPT !.max = 220]}
          ELSE IF name = "text_density"
          THEN {[Threshold EXCEPT !.min_percent = 5],
                [Threshold EXCEPT !.max_percent = 80]}
          ELSE {})

\* Criteria of a hand-written configuration: thresholds left out, names the
\* engine does not know, a resolution minimum other than the one of the
\* configuration file behind CRITERIA.
CustomPool ==
    UNION {{CriteriaConfig(n, t, th, "min") :
                t \in CriteriaType, th \in UnsetThresholdsFor(n)} : n \in MetricNames}
    \cup {CriteriaConfig(n, t, th, "min") :
             n \in UnknownNames, t \in CriteriaType,
             th \in {NoThreshold, ThresholdFor("blur")}}
    \cup {CriteriaConfig("resolution", t, [Threshold EXCEPT !.min_dpi = 300], "min") :
             t \in CriteriaType}

\* Criteria that put a reason and a warning on most documents before a
\* criterion of CustomPool is reached.
LeadingPool ==
    {CriteriaConfig("text_density", "recommended", ThresholdFor("text_density"), "min"),
     CriteriaConfig("compression", "warning", ThresholdFor("compression"), "min")}

\* The criteria lists of the engine runs.
EngineLists ==
    SeqsUpTo(EnginePool, MaxEngineCriteria)
    \cup {pre \o <<c>> : pre \in SeqsUpTo(LeadingPool, MaxEngineCriteria - 1),
                         c \in CustomPool}

InitEngine ==
    /\ CRITERIA = ConfigFile
    /\ criteria_list \in EngineLists
    /\ timeout_per_doc = 60
    /\ \E path \in EnginePaths : doc = Document("d1", path, FILES[path].ext, TRUE)
    /\ proc = worker_call
    /\ data = <<>>
    /\ pc = "idle"
    /\ all_docs = <<>>
    /\ futures = <<>>
    /\ metrics = NewMetrics
    /\ exported = <<>>
    /\ metrics_file = <<>>
    /\ final_output = <<>>

SpecEngine == InitEngine /\ [][NextWorker]_vars

-----------------------------------------------------------------------------
(* run_pipeline: the parallel pipeline *)

Bool(b) == IF b THEN "True" ELSE "False"

\* Lines 99-102 and 118-121: count every reason of a rejected document.
RECURSIVE count_reasons(_, _)
count_reasons(summary, reasons) ==
    IF reasons = <<>> THEN summary
    ELSE LET r == Head(reasons)
             bumped == IF r \in DOMAIN summary
                       THEN [summary EXCEPT ![r] = @ + 1]
                       ELSE [x \in DOMAIN summary \cup {r} |->
                                IF x = r THEN 1 ELSE summary[x]]
         IN count_reasons(bumped, Tail(reasons))

\* record_rejection counting only the first reason of the document.
record_rejection_first_reason(m, doc_id, reasons) ==
    [m EXCEPT !.rejected_docs = @ + 1,
              !.rejected_documents = Append(@, [documentID |-> doc_id, reasons |-> reasons]),
              !.rejection_summary = count_reasons(@, <<Head(reasons)>>)]

\* Lines 94-102 and 113-121: a rejected document enters the metrics.
record_rejection(m, doc_id, reasons) ==
    [m EXCEPT !.rejected_docs = @ + 1,
              !.rejected_documents = Append(@, [documentID |-> doc_id, reasons |-> reasons]),
              !.rejection_summary = count_reasons(@, reasons)]

\* A future of the pool: pending, or done with the worker's return value or
\* with an exception; collected once the as_completed loop has taken it.
\* assigned lists the Document fields the collection step has assigned.
PendingFuture ==
    [state |-> "pending", raised |-> FALSE, result |-> NoResult, collected |-> FALSE,
     assigned |-> <<>>]

Absent == "Absent"   \* a key the input dict does not carry

\* model_validate letting every item through.
model_validate_unchecked(item) == TRUE

\* DocumentBatch.model_validate: customerID and, in every document,
\* documentID and documentPath are required.
model_validate(item) ==
    /\ item.customerID # Absent
    /\ \A j \in 1..Len(item.documents) :
          /\ item.documents[j].documentID # Absent
          /\ item.documents[j].documentPath # Absent

\* The flattened documents of the batches, in input order.
RECURSIVE flatten(_)
flatten(batches) ==
    IF batches = <<>> THEN <<>>
    ELSE Head(batches).documents \o flatten(Tail(batches))

\* docs_by_id keeping the first document of a documentID, not the last.
docs_by_id_first_wins(ds) ==
    [x \in {ds[i].documentID : i \in 1..Len(ds)} |->
        ds[CHOOSE i \in 1..Len(ds) :
              /\ ds[i].documentID = x
              /\ \A j \in 1..Len(ds) : ds[j].documentID = x => i <= j]]

\* Lines 55-57: the id-keyed dict; a later document replaces an earlier one
\* with the same documentID.
RECURSIVE docs_by_id(_)
docs_by_id(ds) ==
    IF ds = <<>> THEN [x \in {} |-> Document("", "", "", FALSE)]
    ELSE LET rest == docs_by_id(SubSeq(ds, 1, Len(ds) - 1))
             d == ds[Len(ds)]
         IN [x \in DOMAIN rest \cup {d.documentID} |->
                IF x = d.documentID THEN d ELSE rest[x]]

\* Lines 83-102: the body of the try for a future that holds a result.
collect_result(m, docs, doc_id, r) ==
    LET d == [docs[doc_id] EXCEPT !.isAccepted = Bool(r.accepted),
                                  !.reasons = r.reasons,
                                  !.warnings = r.warnings]
        m1 == [m EXCEPT !.total_docs = @ + 1]
        m2 == IF r.accepted THEN [m1 EXCEPT !.accepted_docs = @ + 1]
              ELSE record_rejection(m1, doc_id, r.reasons)
    IN [pc |-> "collect", metrics |-> m2, all_docs |-> [docs EXCEPT ![doc_id] = d],
        assigned |-> <<"isAccepted", "reasons", "warnings">>]

CriticalReason == Reason("Critical processing error: {}", "Exception", <<>>)

\* The handler of lines 104-121 letting the exception out of the loop.
collect_exception_propagates(m, docs, doc_id) ==
    [pc |-> "raised", metrics |-> m, all_docs |-> docs, assigned |-> <<>>]

\* The handler of lines 104-121 without the total_docs increment.
collect_exception_uncounted(m, docs, doc_id) ==
    LET reasons == <<CriticalReason>>
        d == [docs[doc_id] EXCEPT !.isAccepted = Bool(FALSE), !.reasons = reasons]
    IN [pc |-> "collect", metrics |-> record_rejection(m, doc_id, reasons),
        all_docs |-> [docs EXCEPT ![doc_id] = d],
        assigned |-> <<"isAccepted", "reasons">>]

\* The handler of lines 104-121 recording the rejection in the metrics only.
collect_exception_no_verdict(m, docs, doc_id) ==
    LET reasons == <<CriticalReason>>
        m1 == [m EXCEPT !.total_docs = @ + 1]
    IN [pc |-> "collect", metrics |-> record_rejection(m1, doc_id, reasons),
        all_docs |-> docs, assigned |-> <<>>]

\* Lines 104-121: the handler for a future that raises.
collect_exception(m, docs, doc_id) ==
    LET reasons == <<CriticalReason>>
        d == [docs[doc_id] EXCEPT !.isAccepted = Bool(FALSE), !.reasons = reasons]
        m1 == [m EXCEPT !.total_docs = @ + 1]
    IN [pc |-> "collect", metrics |-> record_rejection(m1, doc_id, reasons),
        all_docs |-> [docs EXCEPT ![doc_id] = d],
        assigned |-> <<"isAccepted", "reasons">>]

\* build_output listing the documents of a batch in reverse.
build_output_reversed(batches, docs) ==
    [b \in 1..Len(batches) |->
        [customerID |-> batches[b].customerID,
         transactionID |-> batches[b].transactionID,
         documents |-> [j \in 1..Len(batches[b].documents) |->
                           docs[batches[b].documents[Len(batches[b].documents) + 1 - j].documentID]]]]

\* Lines 132-138: the batches rebuilt around the updated documents.
build_output(batches, docs) ==
    [b \in 1..Len(batches) |->
        [customerID |-> batches[b].customerID,
         transactionID |-> batches[b].transactionID,
         documents |-> [j \in 1..Len(batches[b].documents) |->
                           docs[batches[b].documents[j].documentID]]]]

\* Inputs of a pipeline run.
PipelineCriteria ==
    <<CriteriaConfig("blur", "warning", ThresholdFor("blur"), "min"),
      CriteriaConfig("brightness", "recommended", ThresholdFor("brightness"), "min"),
      CriteriaConfig("missing_pages", "required", ThresholdFor("missing_pages"), "min")>>

DocumentIDs == {"doc1", "doc2", "doc3"}

DocumentKinds ==
    {<<"good.pdf", TRUE>>, <<"blurry.pdf", TRUE>>, <<"blank.tiff", TRUE>>,
     <<"broken.pdf", FALSE>>}

InputDocuments ==
    {Document(id, k[1], FILES[k[1]].ext, k[2]) : id \in DocumentIDs, k \in DocumentKinds}

\* An input document taken from the output of an earlier run: it carries
\* the verdict and the warning of that run.
EvaluatedDocuments ==
    {[Document("doc2", "blurry.pdf", "pdf", TRUE) EXCEPT
        !.isAccepted = "True",
        !.warnings = <<Reason("Image too blurry (variance: {})", "", <<0>>)>>]}

\* An input document without documentPath (and the default requiresOCR).
MalformedDocuments == {Document("doc1", Absent, NoFormat, FALSE)}

\* Two batches: the first k documents, then the others; the first batch
\* carries the given customerID.
Batches(ds, k, customer) ==
    <<[customerID |-> customer, transactionID |-> "txn1",
       documents |-> [j \in 1..k |-> ds[j]]],
      [customerID |-> "customer2", transactionID |-> "None",
       documents |-> [j \in 1..(Len(ds) - k) |-> ds[k + j]]]>>

IdleDocument == Document("", "good.pdf", "pdf", FALSE)

Init ==
    /\ CRITERIA = ConfigFile
    /\ criteria_list = PipelineCriteria
    /\ timeout_per_doc = 60
    /\ doc = IdleDocument
    /\ proc = [worker_call EXCEPT !.pc = "idle"]
    /\ \E ds \in SeqsUpTo(InputDocuments \cup EvaluatedDocuments
                                \cup MalformedDocuments, MaxDocs) :
          \E k \in 0..Len(ds), customer \in {"customer1", Absent} :
              data = Batches(ds, k, customer)
    /\ pc = "start"
    /\ all_docs = docs_by_id(<<>>)
    /\ futures = [x \in {} |-> PendingFuture]
    /\ metrics = NewMetrics
    /\ exported = <<>>
    /\ metrics_file = <<>>
    /\ final_output = <<>>

\* Lines 53-54 and 142-144: an item fails validation, run_pipeline raises.
ValidationError ==
    /\ pc = "start"
    /\ \E b \in 1..Len(data) : ~model_validate(data[b])
    /\ pc' = "validation_error"
    /\ UNCHANGED <<CRITERIA, criteria_list, timeout_per_doc, worker_vars,
                   data, all_docs, futures, metrics, exported, final_output, metrics_file>>

\* Lines 53-65.
Validate ==
    /\ pc = "start"
    /\ \A b \in 1..Len(data) : model_validate(data[b])
    /\ all_docs' = docs_by_id(flatten(data))
    /\ metrics' = NewMetrics
    /\ pc' = "submit"
    /\ UNCHANGED <<CRITERIA, criteria_list, timeout_per_doc, worker_vars,
                   data, futures, exported, final_output, metrics_file>>

\* Lines 67-77: one task per key of all_docs.
Submit ==
    /\ pc = "submit"
    /\ futures' = [x \in DOMAIN all_docs |-> PendingFuture]
    /\ pc' = "collect"
    /\ UNCHANGED <<CRITERIA, criteria_list, timeout_per_doc, worker_vars,
                   data, all_docs, metrics, exported, final_output, metrics_file>>

\* A pool process runs the task of doc_id to its end: the future holds what
\* evaluate_document_worker returned.
TaskReturns(doc_id) ==
    /\ futures[doc_id].state = "pending"
    /\ \E elapsed \in ElapsedTimes, escapes \in BOOLEAN :
          futures' = [futures EXCEPT ![doc_id] =
              [@ EXCEPT !.state = "done",
                        !.result = evaluate_document_worker(all_docs[doc_id], CRITERIA,
                                       criteria_list, timeout_per_doc, elapsed, escapes).result]]
    /\ UNCHANGED <<CRITERIA, criteria_list, timeout_per_doc, worker_vars,
                   data, pc, all_docs, metrics, exported, final_output, metrics_file>>

\* The task of doc_id fails outside the worker function (the pool process
\* dies, the arguments or the result cannot be pickled): the future raises.
TaskRaises(doc_id) ==
    /\ futures[doc_id].state = "pending"
    /\ futures' = [futures EXCEPT ![doc_id] = [@ EXCEPT !.state = "done", !.raised = TRUE]]
    /\ UNCHANGED <<CRITERIA, criteria_list, timeout_per_doc, worker_vars,
                   data, pc, all_docs, metrics, exported, final_output, metrics_file>>

\* Lines 79-121: one iteration of the as_completed loop.
Collect(doc_id) ==
    /\ pc = "collect"
    /\ futures[doc_id].state = "done"
    /\ ~futures[doc_id].collected
    /\ LET c == IF futures[doc_id].raised
                THEN collect_exception(metrics, all_docs, doc_id)
                ELSE collect_result(metrics, all_docs, doc_id, futures[doc_id].result)
       IN /\ pc' = c.pc
          /\ metrics' = c.metrics
          /\ all_docs' = c.all_docs
          /\ futures' = [futures EXCEPT ![doc_id] =
                            [@ EXCEPT !.collected = TRUE,
                                      !.assigned = @ \o c.assigned]]
    /\ UNCHANGED <<CRITERIA, criteria_list, timeout_per_doc, worker_vars,
                   data, exported, final_output, metrics_file>>

\* export_metrics letting its failure out.
export_metrics_propagates(m, fails) ==
    IF fails THEN [raised |-> TRUE, file |-> <<>>]
    ELSE [raised |-> FALSE, file |-> <<m>>]

\* utils.py 176-193: the metrics are written to a file of the logs
\* directory; a failure (fails) is logged and swallowed.
export_metrics(m, fails) ==
    IF fails THEN [raised |-> FALSE, file |-> <<>>]
    ELSE [raised |-> FALSE, file |-> <<m>>]

\* Export without waiting for the as_completed loop to end.
Export_before_loop_ends ==
    /\ pc = "collect"
    /\ \E fails \in BOOLEAN :
          LET e == export_metrics(metrics, fails)
          IN /\ exported' = Append(exported, metrics)
             /\ metrics_file' = e.file
             /\ pc' = IF e.raised THEN "raised" ELSE "build"
    /\ UNCHANGED <<CRITERIA, criteria_list, timeout_per_doc, worker_vars,
                   data, all_docs, futures, metrics, final_output>>

\* Lines 123-130: the loop is over, the metrics are exported.
Export ==
    /\ pc = "collect"
    /\ \A x \in DOMAIN futures : futures[x].collected
    /\ \E fails \in BOOLEAN :
          LET e == export_metrics(metrics, fails)
          IN /\ exported' = Append(exported, metrics)
             /\ metrics_file' = e.file
             /\ pc' = IF e.raised THEN "raised" ELSE "build"
    /\ UNCHANGED <<CRITERIA, criteria_list, timeout_per_doc, worker_vars,
                   data, all_docs, futures, metrics, final_output>>

\* Lines 132-140.
BuildOutput ==
    /\ pc = "build"
    /\ final_output' = build_output(data, all_docs)
    /\ pc' = "done"
    /\ UNCHANGED <<CRITERIA, criteria_list, timeout_per_doc, worker_vars,
                   data, all_docs, futures, metrics, exported, metrics_file>>

Next ==
    \/ ValidationError
    \/ Validate
    \/ Submit
    \/ \E doc_id \in DOMAIN futures : TaskReturns(doc_id)
    \/ \E doc_id \in DOMAIN futures : TaskRaises(doc_id)
    \/ \E doc_id \in DOMAIN futures : Collect(doc_id)
    \/ Export
    \/ BuildOutput

Spec == Init /\ [][Next]_vars

-----------------------------------------------------------------------------
(* Properties of the worker process (SpecWorker) *)

\* What the check at list position k measures on the extracted pages.
Outcome(k) == pass_check(proc.images, proc.doc_format, criteria_list, criteria_list[k])

FailsAs(k, types) == criteria_list[k].type \in types /\ Outcome(k).kind = "fail"

Computed == {proc.computed[j] : j \in 1..Len(proc.computed)}

\* Reasons of the failed checks of the given types among the first n computed
\* positions, in order.
RECURSIVE ReasonsOf(_, _)
ReasonsOf(n, types) ==
    IF n = 0 THEN <<>>
    ELSE LET k == proc.computed[n]
             prev == ReasonsOf(n - 1, types)
         IN IF FailsAs(k, types) THEN Append(prev, Outcome(k).reason) ELSE prev

EngineReturned == proc.returned # NoResult

\* C1: a document with requiresOCR = false is accepted with no reasons and
\* no warnings, whatever the criteria list and the timeout, and its worker
\* never enters the engine: no extraction, no check computed.
C1_NoOcrAccepted ==
    ~doc.requiresOCR =>
        /\ proc.pc \in {"worker", "returned"}
        /\ proc.computed = <<>>
        /\ ~proc.extracted
        /\ proc.pc = "returned" => proc.result = Result(TRUE, <<>>, <<>>)

C1_Witness ==
    /\ ~doc.requiresOCR
    /\ proc.pc = "returned"
    /\ Len(criteria_list) >= 1
    /\ \A k \in 1..Len(criteria_list) : criteria_list[k].type = "required"
    /\ FILES[doc.documentPath].fails

\* C2: fail-fast.  Checks run in list order; a failed required check is the
\* last one computed: it appends its reason, rejects and ends the engine
\* call, so at most one reason comes from a required criterion and of two
\* required criteria that both fail only the first is ever computed.
C2_FailFast ==
    /\ \A j \in 1..Len(proc.computed) : proc.computed[j] = j
    /\ \A k \in Computed : FailsAs(k, {"required"}) =>
          /\ k = Len(proc.computed)
          /\ proc.pc \in {"finish", "returned"}
          /\ proc.is_accepted = FALSE
          /\ proc.reasons # <<>>
          /\ proc.reasons[Len(proc.reasons)] = Outcome(k).reason
          /\ proc.returned = Result(FALSE, proc.reasons, proc.warnings)
    /\ Cardinality({k \in Computed : FailsAs(k, {"required"})}) <= 1
    /\ Len(proc.reasons) = Cardinality({k \in Computed : FailsAs(k, {"required", "recommended"})})
    /\ proc.i <= Len(criteria_list) + 1

C2_Witness ==
    /\ proc.pc = "returned"
    /\ ~proc.error_logged
    /\ Len(proc.result.reasons) = 2
    /\ \E a, b \in 1..Len(criteria_list) :
          /\ a < b
          /\ FailsAs(a, {"required"})
          /\ FailsAs(b, {"required"})
          /\ a \in Computed
          /\ b \notin Computed

\* C3: a failed recommended check records its reason and the loop goes on
\* to the next criterion; the document is accepted whenever no required
\* check failed and no error occurred, whatever recommended checks failed.
C3_RecommendedContinues ==
    /\ \A k \in Computed : FailsAs(k, {"recommended"}) =>
          /\ \E j \in 1..Len(proc.reasons) : proc.reasons[j] = Outcome(k).reason
          /\ k = Len(proc.computed) =>
                \/ proc.pc = "loop" /\ proc.i = k + 1
                \/ k = Len(criteria_list) /\ EngineReturned
                \/ proc.error_logged
    /\ ( /\ proc.pc = "returned"
         /\ doc.requiresOCR
         /\ ~proc.error_logged
         /\ proc.images # <<>>
         /\ \A k \in Computed : ~FailsAs(k, {"required"}) /\ Outcome(k).kind # "raise" )
       => /\ proc.result.accepted
          /\ proc.result.reasons = ReasonsOf(Len(proc.computed), {"recommended"})
          /\ Len(proc.computed) = Len(criteria_list)

C3_Witness ==
    /\ proc.pc = "returned"
    /\ proc.result.accepted
    /\ Len(proc.result.reasons) >= 2
    /\ \E k \in Computed : FailsAs(k, {"recommended"}) /\ k < Len(proc.computed)

\* C4: a failed warning check adds its reason to warnings only; accepted
\* and reasons are as without it, and the warnings of every result are
\* reasons of failed warning-type checks, none from another type.
C4_WarningsOnly ==
    /\ proc.warnings = ReasonsOf(Len(proc.computed), {"warning"})
    /\ proc.reasons = ReasonsOf(Len(proc.computed), {"required", "recommended"})
    /\ proc.is_accepted = ~(\E k \in Computed : FailsAs(k, {"required"}))
    /\ proc.returned.warnings \in {<<>>, proc.warnings}
    /\ proc.result.warnings \in {<<>>, proc.warnings}
    /\ \A k \in Computed : FailsAs(k, {"warning"}) /\ k = Len(proc.computed) =>
          \/ proc.pc = "loop" /\ proc.i = k + 1
          \/ k = Len(criteria_list) /\ EngineReturned
          \/ proc.error_logged

C4_Witness ==
    /\ proc.pc = "returned"
    /\ proc.result.accepted
    /\ proc.result.warnings # <<>>
    /\ proc.result.reasons # <<>>
    /\ \E k \in Computed : FailsAs(k, {"warning"}) /\ k < Len(proc.computed)

\* C5: when the raster provider raises or returns no page, the engine
\* returns a rejection with exactly one reason, describing the extraction
\* failure, and no warning, and it computes no check at all.
C5_ExtractionTerminal ==
    (proc.extracted /\ (FILES[doc.documentPath].fails \/ FILES[doc.documentPath].pages = <<>>))
    => /\ proc.pc \in {"finish", "returned"}
       /\ proc.computed = <<>>
       /\ proc.returned =
             Result(FALSE,
                    <<IF FILES[doc.documentPath].fails
                      THEN Reason("Critical error during evaluation: {}",
                                  "Failed to extract images", <<>>)
                      ELSE Reason("No images could be extracted from the document.",
                                  "", <<>>)>>,
                    <<>>)
       /\ (proc.pc = "returned" /\ ~proc.error_logged) => proc.result = proc.returned

C5_Witness ==
    /\ proc.pc = "returned"
    /\ proc.extracted
    /\ ~proc.error_logged
    /\ FILES[doc.documentPath].pages = <<>>
    /\ ~FILES[doc.documentPath].fails
    /\ Len(criteria_list) >= 1

\* C6 as claimed: a check that raises rejects the document with the error
\* reason added to the reasons and warnings accumulated so far, which are
\* kept, and no later check runs.
C6_RaiseKeepsAccumulated ==
    \A k \in Computed : Outcome(k).kind = "raise" =>
        /\ k = Len(proc.computed)
        /\ proc.pc \in {"finish", "returned"}
        /\ proc.returned =
              Result(FALSE,
                     Append(proc.reasons,
                            Reason("Critical error during evaluation: {}",
                                   Outcome(k).reason.detail, <<>>)),
                     proc.warnings)

\* C6, amended: a check that raises, whatever its type, ends the engine call
\* with a rejection whose only reason describes the internal error and
\* whose warnings are empty: the reasons and warnings accumulated from
\* earlier criteria are dropped; no later check runs.
C6_RaiseRejectsAlone ==
    \A k \in Computed : Outcome(k).kind = "raise" =>
        /\ k = Len(proc.computed)
        /\ proc.pc \in {"finish", "returned"}
        /\ proc.returned =
              Result(FALSE,
                     <<Reason("Critical error during evaluation: {}",
                              Outcome(k).reason.detail, <<>>)>>,
                     <<>>)
        /\ (proc.pc = "returned" /\ ~proc.error_logged) => proc.result = proc.returned

C6_Witness ==
    /\ proc.pc = "returned"
    /\ ~proc.error_logged
    /\ proc.reasons # <<>>
    /\ proc.warnings # <<>>
    /\ \E k \in Computed :
          /\ Outcome(k).kind = "raise"
          /\ criteria_list[k].type = "warning"

\* C7: the worker of a document with requiresOCR = true never raises: an
\* exception that reaches its handler becomes the result (false, one reason
\* describing the unexpected error, no warnings).
C7_WorkerNeverRaises ==
    /\ proc.pc # "raised"
    /\ proc.error_logged =>
          /\ doc.requiresOCR
          /\ proc.pc = "returned"
          /\ proc.result.accepted = FALSE
          /\ Len(proc.result.reasons) = 1
          /\ proc.result.reasons[1].text = "Unexpected error during evaluation: {}"
          /\ proc.result.warnings = <<>>

C7_Witness ==
    /\ proc.error_logged
    /\ proc.pc = "returned"
    /\ proc.reasons # <<>>
    /\ proc.warnings # <<>>

\* C8: the timeout is advisory.  A worker whose elapsed time exceeded
\* timeout_seconds returns exactly what the engine returned, which is what
\* it returns when no time has passed: no rejection, no reason and no
\* skipped check comes from the timeout.
C8_TimeoutAdvisory ==
    (proc.pc = "returned" /\ proc.timed_out) =>
        LET q == worker_run(worker_call, doc, CRITERIA, criteria_list, timeout_per_doc, 0)
        IN /\ proc.result = proc.returned
           /\ proc.result = q.result
           /\ proc.computed = q.computed
           /\ ~q.timed_out
           /\ \A j \in 1..Len(proc.result.reasons) :
                 proc.result.reasons[j].text # "Evaluation timeout after {}s"

C8_Witness ==
    /\ proc.pc = "returned"
    /\ proc.timed_out
    /\ proc.result.accepted
    /\ Len(criteria_list) >= 1
    /\ Len(proc.computed) = Len(criteria_list)

\* The list holds at least one non-empty reason string.
HasReason(reasons) ==
    \E j \in 1..Len(reasons) : reasons[j].text # "" \/ reasons[j].detail # ""

\* C12: every rejection carries a reason.  A result with accepted = false
\* holds at least one non-empty reason string when the engine returns it,
\* when the worker returns it, and on the Document and in the metrics entry
\* the collection step of the pipeline makes of it, for a returned result as
\* for a future that raises.
C12_RejectionHasReason ==
    /\ proc.pc = "finish" =>
          (~proc.returned.accepted => HasReason(proc.returned.reasons))
    /\ proc.pc = "returned" =>
          LET id == doc.documentID
              docs == docs_by_id(<<doc>>)
              c == collect_result(NewMetrics, docs, id, proc.result)
              e == collect_exception(NewMetrics, docs, id)
              Rejections(o) ==
                  /\ o.all_docs[id].isAccepted = "False" =>
                        HasReason(o.all_docs[id].reasons)
                  /\ \A j \in 1..Len(o.metrics.rejected_documents) :
                        HasReason(o.metrics.rejected_documents[j].reasons)
          IN /\ ~proc.result.accepted => HasReason(proc.result.reasons)
             /\ Rejections(c)
             /\ c.all_docs[id].isAccepted = Bool(proc.result.accepted)
             /\ Rejections(e)
             /\ e.all_docs[id].isAccepted = "False"

C12_Witness ==
    /\ proc.pc = "returned"
    /\ ~proc.error_logged
    /\ ~proc.result.accepted
    /\ Len(proc.result.reasons) = 1
    /\ proc.result.warnings # <<>>
    /\ \E k \in Computed : k > 1 /\ FailsAs(k, {"required"})

\* The aggregated value the branch of the criterion at position k compares
\* with its threshold.
Observed(k) ==
    LET name == criteria_list[k].name
        images == proc.images
        meta == Field(images, "dpi")
        skews == Field(images, "skew")
    IN CASE name = "resolution" ->
                _aggregate(IF (\E i \in 1..Len(meta) : meta[i] = 0)
                              /\ proc.doc_format = "pdf"
                           THEN Field(images, "vector_dpi") ELSE meta, "min")
         [] name = "brightness" -> _aggregate(Field(images, "brightness"), "avg")
         [] name = "blur" -> _aggregate(Field(images, "variance"), "min")
         [] name = "skew" ->
                _aggregate([i \in 1..Len(skews) |-> Abs(skews[i])], "max")
         [] name = "watermark" -> _aggregate(Field(images, "watermark"), "max")
         [] name = "text_density" ->
                _aggregate(Field(images, "content_ratio"), criteria_list[k].aggregate_mode)
         [] name = "noise" -> _aggregate(Field(images, "noise"), "max")
         [] name = "compression" -> _aggregate(Field(images, "entropy"), "min")
         [] name = "missing_pages" -> _aggregate(Field(images, "content_ratio"), "min")
         [] OTHER -> None

\* C20: the reason of every failed metric check, as it stands in the
\* reasons or the warnings of the run, formats the aggregated value the
\* check compared with its threshold.
C20_ReasonIncludesValue ==
    \A k \in Computed : Outcome(k).kind = "fail" =>
        LET r == Outcome(k).reason
        IN /\ \/ \E j \in 1..Len(proc.reasons) : proc.reasons[j] = r
              \/ \E j \in 1..Len(proc.warnings) : proc.warnings[j] = r
           /\ \E i \in 1..Len(r.vals) : r.vals[i] = Observed(k)

-----------------------------------------------------------------------------
(* Properties of the engine (SpecEngine) *)

\* The minimum bound the branch of a criterion name compares with.
MinBound(name) ==
    CASE name = "resolution"    -> "min_dpi"
      [] name = "brightness"    -> "min"
      [] name = "blur"          -> "min_variance"
      [] name = "text_density"  -> "min_percent"
      [] name = "compression"   -> "min_entropy"
      [] name = "missing_pages" -> "min_content_ratio"
      [] OTHER                  -> ""

\* The criterion at position k is required and has a minimum bound set.
Tightenable(k) ==
    /\ criteria_list[k].type = "required"
    /\ MinBound(criteria_list[k].name) # ""
    /\ criteria_list[k].threshold.present
    /\ criteria_list[k].threshold[MinBound(criteria_list[k].name)] # None

\* The criteria list with that bound of the criterion at k raised by delta.
Tightened(k, delta) ==
    [criteria_list EXCEPT ![k].threshold[MinBound(criteria_list[k].name)] = @ + delta]

\* What the engine returns for the document under the list clist.
EngineVerdict(clist) ==
    worker_run(worker_call, doc, CRITERIA, clist, timeout_per_doc, 0).returned

\* C18 as claimed: with the pages, the list and all other thresholds fixed,
\* raising a minimum bound of one required criterion never turns the
\* engine's rejection into an acceptance.
C18_Monotone ==
    proc.pc = "finish" =>
        \A k \in 1..Len(criteria_list) : \A delta \in 1..MaxRaise :
            Tightenable(k) =>
                (EngineVerdict(Tightened(k, delta)).accepted => proc.returned.accepted)

\* C18, amended: the same, except for min_percent of a text_density
\* criterion in a list that also holds a resolution criterion (there the
\* bound is also the level below which the resolution check is bypassed).
C18_MonotoneButBypass ==
    proc.pc = "finish" =>
        \A k \in 1..Len(criteria_list) : \A delta \in 1..MaxRaise :
            ( /\ Tightenable(k)
              /\ ~( /\ criteria_list[k].name = "text_density"
                    /\ ResolutionConfigs(criteria_list) # {} ) )
            => (EngineVerdict(Tightened(k, delta)).accepted => proc.returned.accepted)

C18_Witness ==
    /\ proc.pc = "finish"
    /\ proc.returned.accepted
    /\ Len(criteria_list) = 2
    /\ \E k \in 1..Len(criteria_list) : \E delta \in 1..MaxRaise :
          /\ Tightenable(k)
          /\ criteria_list[k].name = "text_density"
          /\ ResolutionConfigs(criteria_list) = {}
          /\ ~EngineVerdict(Tightened(k, delta)).accepted
          /\ EngineVerdict(Tightened(k, 1)).accepted

-----------------------------------------------------------------------------
(* Properties of the pipeline (Spec) *)

InputDocs == flatten(data)

UniqueIDs ==
    \A i, j \in 1..Len(InputDocs) :
        InputDocs[i].documentID = InputDocs[j].documentID => i = j

\* The verdicts the worker can return for d when d is evaluated on its own.
WorkerVerdicts(d) ==
    {evaluate_document_worker(d, CRITERIA, criteria_list, timeout_per_doc, e, x).result :
        e \in ElapsedTimes, x \in BOOLEAN}

InputOf(doc_id) ==
    InputDocs[CHOOSE i \in 1..Len(InputDocs) :
                 /\ InputDocs[i].documentID = doc_id
                 /\ \A j \in 1..Len(InputDocs) :
                        InputDocs[j].documentID = doc_id => j <= i]

Verdict(d) == Result(d.isAccepted = "True", d.reasons, d.warnings)

Collected == {x \in DOMAIN futures : futures[x].collected}

RaisedCollected == {x \in Collected : futures[x].raised}

EntriesOf(doc_id) ==
    {j \in 1..Len(metrics.rejected_documents) :
        metrics.rejected_documents[j].documentID = doc_id}

OutputDocs == flatten(final_output)

Occurrences(ds, doc_id) == Cardinality({i \in 1..Len(ds) : ds[i].documentID = doc_id})

Produced(doc_id) ==
    IF futures[doc_id].raised
    THEN Result(FALSE, <<CriticalReason>>, InputOf(doc_id).warnings)
    ELSE futures[doc_id].result

MalformedInput ==
    \E b \in 1..Len(data) :
        \/ data[b].customerID = Absent
        \/ \E j \in 1..Len(data[b].documents) :
               \/ data[b].documents[j].documentID = Absent
               \/ data[b].documents[j].documentPath = Absent

\* C14: when a batch or a document of the input fails validation,
\* run_pipeline does nothing but raise: it never gets past validation, no
\* task is submitted, no Document is registered or updated, the metrics
\* stay untouched and unexported, and no output is built, whatever valid
\* documents the input also holds.
C14_ValidationAborts ==
    MalformedInput =>
        /\ pc \in {"start", "validation_error"}
        /\ DOMAIN futures = {}
        /\ DOMAIN all_docs = {}
        /\ metrics = NewMetrics
        /\ exported = <<>>
        /\ final_output = <<>>

C14_Witness ==
    /\ pc = "validation_error"
    /\ data[1].customerID # Absent
    /\ Len(InputDocs) = 2
    /\ InputDocs[1].documentPath # Absent
    /\ InputDocs[1].requiresOCR
    /\ InputDocs[2].documentPath = Absent

IdentityFields ==
    {"documentID", "documentType", "documentFormat", "documentPath", "requiresOCR"}

VerdictFields == {"isAccepted", "reasons", "warnings"}

SameIdentity(a, b) == \A f \in IdentityFields : a[f] = b[f]

Count(seq, v) == Cardinality({i \in 1..Len(seq) : seq[i] = v})

RejectedIDs == {x \in DOMAIN all_docs : all_docs[x].isAccepted = "False"}

\* Occurrences of the reason r in the reasons of the documents of S.
RECURSIVE ReasonOccurrences(_, _)
ReasonOccurrences(S, r) ==
    IF S = {} THEN 0
    ELSE LET x == CHOOSE y \in S : TRUE
         IN Count(all_docs[x].reasons, r) + ReasonOccurrences(S \ {x}, r)

ReasonsGiven ==
    UNION {{all_docs[x].reasons[j] : j \in 1..Len(all_docs[x].reasons)} : x \in RejectedIDs}

-----------------------------------------------------------------------------
(* Properties of the metric branches (SpecEngine) *)

\* The pages as the j-th computed branch found them: the pages the raster
\* provider returned, after the branches computed before it.
RECURSIVE PagesBefore(_)
PagesBefore(j) ==
    IF j = 1 THEN FILES[doc.documentPath].pages
    ELSE pages_after(PagesBefore(j - 1), criteria_list[proc.computed[j - 1]].name)

\* The j-th computed branch is a range check with both bounds set.
IsRangeCheck(j) ==
    LET c == criteria_list[proc.computed[j]]
    IN /\ c.name \in {"brightness", "text_density"}
       /\ c.threshold.present
       /\ c.name = "brightness" => c.threshold.min # None /\ c.threshold.max # None
       /\ c.name = "text_density" =>
              c.threshold.min_percent # None /\ c.threshold.max_percent # None

\* The value the range check compares and its two bounds, in units of 1/Scale.
RangeOf(j) ==
    LET c == criteria_list[proc.computed[j]]
    IN IF c.name = "brightness"
       THEN [a |-> (Scale * SeqSum(Field(PagesBefore(j), "brightness")))
                      \div Len(PagesBefore(j)),
             lo |-> Scale * c.threshold.min, hi |-> Scale * c.threshold.max]
       ELSE [a |-> _aggregate(Field(PagesBefore(j), "content_ratio"), c.aggregate_mode),
             lo |-> Scale * c.threshold.min_percent,
             hi |-> Scale * c.threshold.max_percent]

\* C21: the bounds of the range criteria are inclusive.  A brightness check
\* passes when the mean brightness equals min or max, a text_density check
\* when the aggregated content ratio equals min_percent or max_percent; such
\* a check fails only when the value is strictly outside the range.
C21_InclusiveBounds ==
    \A j \in 1..Len(proc.computed) :
        IsRangeCheck(j) =>
            LET r == RangeOf(j)
            IN /\ proc.outcomes[j].kind \in {"pass", "fail"}
               /\ proc.outcomes[j].kind = "fail" <=> (r.a < r.lo \/ r.a > r.hi)

\* A brightness check and a text_density check were computed on values that
\* equal the lower bounds, and both passed.
C21_Witness ==
    /\ \E j \in 1..Len(proc.computed) :
          /\ IsRangeCheck(j)
          /\ criteria_list[proc.computed[j]].name = "brightness"
          /\ RangeOf(j).a = RangeOf(j).lo
          /\ proc.outcomes[j].kind = "pass"
    /\ \E j \in 1..Len(proc.computed) :
          /\ IsRangeCheck(j)
          /\ criteria_list[proc.computed[j]].name = "text_density"
          /\ RangeOf(j).a = RangeOf(j).lo
          /\ proc.outcomes[j].kind = "pass"

\* C22: computing a metric does not modify the raster pages it is given: the
\* pages of the engine stay the pages the raster provider returned, and
\* what a criterion finds is what its branch finds on those pages, whichever
\* criteria (skew included) were evaluated before it.
C22_MetricsArePure ==
    /\ proc.images # <<>> => proc.images = FILES[doc.documentPath].pages
    /\ \A j \in 1..Len(proc.computed) :
          proc.outcomes[j] =
              pass_check(FILES[doc.documentPath].pages, proc.doc_format,
                         criteria_list, criteria_list[proc.computed[j]])

\* The DPI the fallback chain chooses for one page: the metadata DPI if
\* present, else for a PDF the DPI derived from the page width; when that is
\* absent or below min_dpi, the content-based estimate of the page.
ChosenDpi(img, doc_format, min_dpi) ==
    LET d == IF img.dpi # 0 THEN img.dpi
             ELSE IF doc_format = "pdf" THEN img.vector_dpi ELSE 0
    IN IF d = 0 \/ d < min_dpi THEN img.est_dpi ELSE d

\* The j-th computed branch is a resolution check that compared a DPI with
\* its min_dpi.
IsResolutionCheck(j) ==
    LET c == criteria_list[proc.computed[j]]
    IN /\ c.name = "resolution"
       /\ c.threshold.present
       /\ c.threshold.min_dpi # None
       /\ proc.outcomes[j].kind \in {"pass", "fail"}

\* C23: the resolution check chooses a DPI for each page through the
\* fallback chain (metadata, page width of a vector format, content-based
\* estimate of that page), aggregates the chosen values with the
\* criterion's aggregate_mode and fails exactly when the aggregated DPI is
\* below min_dpi.
C23_ResolutionRule ==
    \A j \in 1..Len(proc.computed) :
        IsResolutionCheck(j) =>
            LET c == criteria_list[proc.computed[j]]
                imgs == PagesBefore(j)
                chosen == [i \in 1..Len(imgs) |->
                              ChosenDpi(imgs[i], proc.doc_format, c.threshold.min_dpi)]
            IN proc.outcomes[j].kind = "fail"
                   <=> _aggregate(chosen, c.aggregate_mode) < Scale * c.threshold.min_dpi

\* The content level below which a page counts as near-blank for the
\* resolution check: min_percent of the list's text_density criterion (None
\* when that field is unset), 1 when the list has none.
NearBlankLevel ==
    LET tds == TextDensityConfigs(criteria_list)
        td == criteria_list[CHOOSE i \in tds : \A k \in tds : i <= k]
    IN IF tds # {} /\ td.threshold.present THEN td.threshold.min_percent ELSE 1

\* The pages that are not near-blank.
DensePages(images) ==
    LET Dense(img) == img.content_ratio >= NearBlankLevel
    IN SelectSeq(images, Dense)

\* C24: a near-blank page never causes a resolution failure.  The check is
\* bypassed for such a page whatever DPI is measured on it and whatever the
\* other pages contain: a resolution check fails only if it also fails on
\* the pages of the document that are not near-blank.
C24_NearBlankBypassed ==
    \A j \in 1..Len(proc.computed) :
        (IsResolutionCheck(j) /\ NearBlankLevel # None
            /\ proc.outcomes[j].kind = "fail") =>
            LET dense == DensePages(PagesBefore(j))
                c == criteria_list[proc.computed[j]]
            IN /\ dense # <<>>
               /\ check_resolution(dense, proc.doc_format, criteria_list,
                                   c.threshold).kind = "fail"

-----------------------------------------------------------------------------
(* Properties of the end of a pipeline run (Spec) *)

AllTasksFolded ==
    \A x \in DOMAIN futures : futures[x].state = "done" /\ futures[x].collected

\* C25: run_pipeline folds the results and returns only after every
\* submitted task has completed.  The metrics are handed to export_metrics
\* exactly once, after the last result has been folded into them and before
\* the output batches are built, never while a task is pending or
\* uncollected.
C25_ExportAfterAllTasks ==
    /\ Len(exported) <= 1
    /\ exported # <<>> => AllTasksFolded /\ exported[1] = metrics
    /\ pc \in {"build", "done"} => AllTasksFolded /\ Len(exported) = 1
    /\ final_output # <<>> => pc = "done"
    /\ pc \in {"start", "submit", "collect"} => exported = <<>> /\ final_output = <<>>

\* A run over two tasks has returned: both results were folded, then the
\* metrics were exported, then the output was built.
C25_Witness ==
    /\ pc = "done"
    /\ Cardinality(DOMAIN futures) = 2
    /\ AllTasksFolded
    /\ exported = <<metrics>>
    /\ metrics.total_docs = 2
    /\ final_output # <<>>

-----------------------------------------------------------------------------
(* Properties of the engine's configuration (SpecEngine) *)

\* min_dpi of the first resolution criterion of the list handed to the
\* engine, 200 when the list has none (or it has no threshold).
ListMinDpi ==
    LET rs == ResolutionConfigs(criteria_list)
        rc == criteria_list[CHOOSE i \in rs : \A k \in rs : i <= k]
    IN IF rs # {} /\ rc.threshold.present THEN rc.threshold.min_dpi ELSE 200

\* C26: the DPI requested from the raster provider is min_dpi of the
\* resolution criterion of the criteria list passed to the engine (200 when
\* the list has none); it depends on no other criteria set.
C26_RequestedDpiFromList ==
    (proc.extracted /\ ListMinDpi # None) => proc.requested_dpi = ListMinDpi

-----------------------------------------------------------------------------
(* Properties of a run whose documents share a documentID (Spec) *)

InputIDs == {InputDocs[i].documentID : i \in 1..Len(InputDocs)}

\* documentIDs that two input documents carry.
SharedIDs ==
    {x \in InputIDs : \E i, j \in 1..Len(InputDocs) :
        i < j /\ InputDocs[i].documentID = x /\ InputDocs[j].documentID = x}

-----------------------------------------------------------------------------
(* Properties of hand-written configurations (SpecEngine) *)

\* The threshold fields the branch of a metric criterion compares.
RelevantFields(name) ==
    CASE name = "resolution"    -> {"min_dpi"}
      [] name = "brightness"    -> {"min", "max"}
      [] name = "blur"          -> {"min_variance"}
      [] name = "skew"          -> {"max_deg"}
      [] name = "watermark"     -> {"max_overlap"}
      [] name = "text_density"  -> {"min_percent", "max_percent"}
      [] name = "noise"         -> {"max_percent"}
      [] name = "compression"   -> {"min_entropy"}
      [] name = "missing_pages" -> {"min_content_ratio"}
      [] OTHER                  -> {}

\* The j-th computed branch is a metric check with a relevant threshold
\* field unset, and it got as far as its threshold comparison: the
\* resolution check was not bypassed and no metric computation raised.
ComparesUnset(j) ==
    LET c == criteria_list[proc.computed[j]]
    IN /\ c.name \in MetricNames
       /\ \/ ~c.threshold.present
          \/ \E f \in RelevantFields(c.name) : c.threshold[f] = None
       /\ proc.outcomes[j].kind # "skip"
       /\ ~(proc.outcomes[j].kind = "raise"
            /\ proc.outcomes[j].reason.detail # "TypeError")

\* The engine returned a rejection with the single reason of its handler
\* and no warnings.
CriticalRejection ==
    /\ ~proc.returned.accepted
    /\ Len(proc.returned.reasons) = 1
    /\ proc.returned.reasons[1].text = "Critical error during evaluation: {}"
    /\ proc.returned.warnings = <<>>

\* C28 as stated: for a metric criterion other than file_integrity whose
\* relevant threshold field is unset, reaching its threshold comparison
\* makes the engine reject with exactly one "Critical error during
\* evaluation" reason and empty warnings, whatever the criterion's type.
C28_UnsetThresholdRejects ==
    \A j \in 1..Len(proc.computed) : ComparesUnset(j) => CriticalRejection

\* The j-th computed branch is a range check whose lower bound is set and
\* whose value is below it: the chained comparison is decided without the
\* upper bound.
BelowSetLowerBound(j) ==
    LET c == criteria_list[proc.computed[j]]
        lo == IF c.name = "brightness" THEN c.threshold.min
              ELSE c.threshold.min_percent
    IN /\ c.name \in {"brightness", "text_density"}
       /\ c.threshold.present
       /\ lo # None
       /\ RangeOf(j).a < Scale * lo

\* C28: as above, except for a range criterion (brightness, text_density)
\* whose lower bound is set, whose upper bound is unset and whose value is
\* below the lower bound: that check fails like any other, by its type.
C28_UnsetThresholdRejectsUnlessBelow ==
    \A j \in 1..Len(proc.computed) :
        (ComparesUnset(j) /\ ~BelowSetLowerBound(j)) => CriticalRejection

\* A warning was accumulated, then a check with an unset threshold reached
\* its comparison: the engine rejected with the single critical reason and
\* dropped the warning.
C28_Witness ==
    /\ proc.warnings # <<>>
    /\ \E j \in 1..Len(proc.computed) :
          /\ ComparesUnset(j)
          /\ ~BelowSetLowerBound(j)
          /\ criteria_list[proc.computed[j]].type = "warning"
    /\ CriticalRejection

\* C29: a criterion whose name the engine has no branch for always passes,
\* like file_integrity: whatever its type, its threshold and the pages, its
\* check finds nothing, and a list of such criteria accepts every document
\* whose pages were extracted, with no reasons and no warnings.
C29_UnknownNamePasses ==
    /\ \A j \in 1..Len(proc.computed) :
          criteria_list[proc.computed[j]].name \notin HandledNames =>
              proc.outcomes[j] = Passed
    /\ (/\ EngineReturned
        /\ proc.images # <<>>
        /\ \A k \in 1..Len(criteria_list) :
               criteria_list[k].name \notin MetricNames)
           => proc.returned = Result(TRUE, <<>>, <<>>)

\* A required criterion with an unknown name and a threshold was computed
\* on a blank page and passed; the engine accepted the document.
C29_Witness ==
    /\ doc.documentPath = "blank.tiff"
    /\ proc.pc = "finish"
    /\ \E j \in 1..Len(proc.computed) :
          LET c == criteria_list[proc.computed[j]]
          IN /\ c.name \in UnknownNames
             /\ c.type = "required"
             /\ c.threshold.present
             /\ proc.outcomes[j] = Passed
    /\ proc.returned.accepted

-----------------------------------------------------------------------------
(* Properties of the metrics export (Spec) *)

\* export_metrics was called and wrote nothing: it failed.
ExportFailed == exported # <<>> /\ metrics_file = <<>>

====
